---- MODULE Spec2Model ----
(***************************************************************************)
(* StockTracker: the ranking-file loaders, the quote fetch loops and the   *)
(* persistence of fetch_stock_data.py, stock_analysis.py and               *)
(* stock_analysis_old.py.                                                  *)
(*                                                                         *)
(* Text is modelled at the granularity the code looks at it: a file is a   *)
(* sequence of lines, a line is the sequence of its comma-separated        *)
(* fields, a field is its text plus whether blanks pad it on either side.  *)
(***************************************************************************)
EXTENDS Integers, Sequences, FiniteSets, TLC

VARIABLES
    \* ---- ranking-file loaders, applied to one input file
    loadIn,      \* the ranking file handed to a loader
    loadOut,     \* what the loader call did: [who, err, rows]
    \* ---- fetch_stock_data.py: the files and the runs
    clock,       \* the latest second a run has seen on the clock
    rank,        \* the two ranking files, by market
    latest,      \* data/latest.json
    hist,        \* data/stock_data_<timestamp>.json, by timestamp
    index,       \* data/data_list.json
    pc,          \* where each run of fetch_stock_data.main is
    wake,        \* when a run's time.sleep(5) ends
    run,         \* each run's locals (gone when the process ends)
    runs,        \* runs started so far
    wrote,       \* what a running process has written to each artifact
    appended,    \* the entries of the completed update_data_list calls
    exchange,    \* the replies the exchange API may give to a request
    \* ---- stock_analysis.py: its files and its run
    prog,        \* the program that runs: fetch_stock_data, stock_analysis, stock_loop
    aMode,       \* PROCESS_MODE
    aFiles,      \* StockInfo/: the company lists and the ranking files
    aOut,        \* StockInfo/<market>_hotstock_data.json, by market
    aPc,         \* where stock_analysis.main is
    aRun,        \* its locals
    \* ---- stock_loop.py
    loop         \* where stock_loop.main is: [pc, run_count, success]

varsLoad == <<loadIn, loadOut>>
varsData == <<clock, rank, latest, hist, index, pc, wake, run, runs, wrote, appended>>
varsEnv == <<exchange, prog, loop>>
varsAn == <<aMode, aFiles, aOut, aPc, aRun>>
vars == <<loadIn, loadOut, clock, rank, latest, hist, index, pc, wake, run, runs,
          wrote, appended, exchange, prog, aMode, aFiles, aOut, aPc, aRun, loop>>

(***************************************************************************)
(* Bounds of the model.                                                    *)
(***************************************************************************)
MaxLines == 3      \* lines of a ranking file handed to a loader
MaxClock == 12     \* no run sees a later second than this one
MaxRuns == 2       \* runs of fetch_stock_data.main started in one behaviour

(***************************************************************************)
(* Program constants.                                                      *)
(***************************************************************************)
HistoryCap == 100  \* data_list[-100:]
FetchSleep == 5    \* time.sleep(5) between the two markets

Markets == {"TSE", "OTC"}

(***************************************************************************)
(* Text.                                                                   *)
(***************************************************************************)
Fld(t) == [text |-> t, lpad |-> FALSE, rpad |-> FALSE]
Pad(t) == [text |-> t, lpad |-> TRUE, rpad |-> TRUE]

\* str.strip() of one field
strip(f) == [text |-> f.text, lpad |-> FALSE, rpad |-> FALSE]
lstrip(f) == IF f.text = "" THEN strip(f) ELSE [f EXCEPT !.lpad = FALSE]
rstrip(f) == IF f.text = "" THEN strip(f) ELSE [f EXCEPT !.rpad = FALSE]

\* line.strip() followed by line.split(','): the blanks go from the left of
\* the first field and from the right of the last one only
line_strip(line) ==
    [i \in 1..Len(line) |->
        LET a == IF i = 1 THEN lstrip(line[i]) ELSE line[i]
        IN  IF i = Len(line) THEN rstrip(a) ELSE a]

HashTexts == {"# TSE - 2024-01-02", "#9"}

\* line.startswith('#') or not line, of a stripped line
is_skipped(parts) ==
    \/ parts[1].text \in HashTexts /\ ~parts[1].lpad
    \/ Len(parts) = 1 /\ parts[1].text = ""

\* int(): the texts Python reads as an integer (blanks around are accepted)
IntTexts == {"100", "-5", "0", "250", "7"}
IntOf(t) ==
    CASE t = "100" -> 100
      [] t = "-5"  -> -5
      [] t = "0"   -> 0
      [] t = "250" -> 250
      [] t = "7"   -> 7
is_int(f) == f.text \in IntTexts

ABSENT == [st |-> "absent", data |-> <<>>]
PARTIAL == [st |-> "partial", data |-> <<>>]
File(d) == [st |-> "complete", data |-> d]

(***************************************************************************)
(* stock_analysis.load_buy_ranking: a dict keyed by code, kept here as the *)
(* sequence of its items in insertion order.                               *)
(***************************************************************************)
dict_put(d, code, val) ==
    IF \E i \in 1..Len(d) : d[i].code = code
    THEN [i \in 1..Len(d) |-> IF d[i].code = code THEN val ELSE d[i]]
    ELSE Append(d, val)

RECURSIVE analysis_lines(_, _)
analysis_lines(lines, buy_ranking) ==
    IF lines = <<>> THEN buy_ranking
    ELSE LET parts == line_strip(Head(lines))
             code == strip(parts[2])
             name == strip(parts[3])
             buy_volume == strip(parts[4])
         IN  IF is_skipped(parts) THEN analysis_lines(Tail(lines), buy_ranking)
             ELSE IF Len(parts) >= 4 /\ is_int(buy_volume)
             THEN analysis_lines(Tail(lines),
                     dict_put(buy_ranking, code,
                         [code |-> code, name |-> name,
                          volume |-> IntOf(buy_volume.text)]))
             ELSE analysis_lines(Tail(lines), buy_ranking)

load_buy_ranking(file) ==
    IF file.st = "absent" THEN [err |-> "none", rows |-> <<>>]
    ELSE [err |-> "none", rows |-> analysis_lines(file.data, <<>>)]

(***************************************************************************)
(* fetch_stock_data.load_buy_ranking: a list; any exception (the file      *)
(* cannot be opened, int() refuses a volume) ends in "return []".          *)
(***************************************************************************)
\* len(parts) >= 3: a line of three fields reaches parts[3] and raises
RECURSIVE fetch_lines_short_raises(_, _)
fetch_lines_short_raises(lines, stocks) ==
    IF lines = <<>> THEN [err |-> "none", rows |-> stocks]
    ELSE LET parts == line_strip(Head(lines))
         IN  IF is_skipped(parts) THEN fetch_lines_short_raises(Tail(lines), stocks)
             ELSE IF Len(parts) >= 4
             THEN IF is_int(parts[4])
                  THEN fetch_lines_short_raises(Tail(lines),
                          Append(stocks,
                              [code |-> strip(parts[2]), name |-> strip(parts[3]),
                               yesterday_buy |-> IntOf(parts[4].text)]))
                  ELSE [err |-> "ValueError", rows |-> stocks]
             ELSE IF Len(parts) = 3 THEN [err |-> "IndexError", rows |-> stocks]
             ELSE fetch_lines_short_raises(Tail(lines), stocks)

RECURSIVE fetch_lines(_, _)
fetch_lines(lines, stocks) ==
    IF lines = <<>> THEN [err |-> "none", rows |-> stocks]
    ELSE LET parts == line_strip(Head(lines))
         IN  IF is_skipped(parts) THEN fetch_lines(Tail(lines), stocks)
             ELSE IF Len(parts) >= 4
             THEN IF is_int(parts[4])
                  THEN fetch_lines(Tail(lines),
                          Append(stocks,
                              [code |-> strip(parts[2]), name |-> strip(parts[3]),
                               yesterday_buy |-> IntOf(parts[4].text)]))
                  ELSE [err |-> "ValueError", rows |-> stocks]
             ELSE fetch_lines(Tail(lines), stocks)

fetch_load_raw(file) ==
    IF file.st = "absent" THEN [err |-> "FileNotFoundError", rows |-> <<>>]
    ELSE fetch_lines(file.data, <<>>)

fetch_load_buy_ranking(file) ==
    LET r == fetch_load_raw(file)
    IN  IF r.err # "none" THEN [err |-> "none", rows |-> <<>>] ELSE r

(***************************************************************************)
(* stock_analysis_old.read_ranking_file: no try, the fields are not        *)
(* stripped.                                                               *)
(***************************************************************************)
RECURSIVE old_lines(_, _)
old_lines(lines, stocks) ==
    IF lines = <<>> THEN [err |-> "none", rows |-> stocks]
    ELSE LET parts == line_strip(Head(lines))
         IN  IF is_skipped(parts) THEN old_lines(Tail(lines), stocks)
             ELSE IF Len(parts) >= 4
             THEN IF is_int(parts[4])
                  THEN old_lines(Tail(lines),
                          Append(stocks,
                              [code |-> parts[2], name |-> parts[3],
                               yesterday_buy |-> IntOf(parts[4].text)]))
                  ELSE [err |-> "ValueError", rows |-> <<>>]
             ELSE old_lines(Tail(lines), stocks)

read_ranking_file(file) ==
    IF file.st = "absent" THEN [err |-> "FileNotFoundError", rows |-> <<>>]
    ELSE old_lines(file.data, <<>>)

(***************************************************************************)
(* fetch_stock_data.get_stock_order_info, TEST_MODE = False.  A reply is   *)
(* what session.get and response.json() gave: kind says how the request    *)
(* ended; n, z, t are the fields of msgArray[0] (MISSING: the key is not   *)
(* there); f and g are its ladder strings, already split at '_'.           *)
(***************************************************************************)
MISSING == "<missing>"

\* v and v.replace('-', '').isdigit()
LadderDigits == {"10", "20", "-3", "1-2"}
\* int(v): of the texts that pass the filter, "1-2" is no integer
LadderInts == {"10", "20", "-3"}
LadderOf(v) ==
    CASE v = "10" -> 10
      [] v = "20" -> 20
      [] v = "-3" -> -3

RECURSIVE ladder_sum(_)
ladder_sum(vs) ==
    IF vs = <<>> THEN 0
    ELSE IF Head(vs) \in LadderDigits
         THEN LadderOf(Head(vs)) + ladder_sum(Tail(vs))
         ELSE ladder_sum(Tail(vs))

ladder_raises(vs) ==
    \E i \in 1..Len(vs) : vs[i] \in LadderDigits /\ vs[i] \notin LadderInts

get(v, default) == IF v = MISSING THEN default ELSE v

\* len(stock_code) and stock_code.startswith('00') of the codes in use:
\* "00679B" is a bond fund of the OTC market, "2881A" a preferred share of
\* the TSE market, the others are the four-digit codes of both markets
code_len(stock_code) ==
    CASE stock_code = "00679B" -> 6
      [] stock_code = "2881A" -> 5
      [] OTHER -> 4
starts_00(stock_code) == stock_code \in {"00679B"}

\* the ex_ch parameter of the request: f'{exchange}_{stock_code}.tw'
ex_ch(stock_code) ==
    [exchange |-> IF starts_00(stock_code) \/ code_len(stock_code) = 4
                  THEN "tse" ELSE "otc",
     code |-> stock_code]

order_failure(stock_code, stock_name) ==
    [code |-> stock_code, name |-> stock_name, success |-> FALSE]

get_stock_order_info(stock_code, stock_name, reply) ==
    IF reply.kind \in {"timeout", "badjson"}
    THEN order_failure(stock_code, stock_name)          \* except Exception
    ELSE IF reply.kind \in {"status", "rtcode", "empty"}
    THEN order_failure(stock_code, stock_name)          \* falls through the ifs
    ELSE IF ladder_raises(reply.f) \/ ladder_raises(reply.g)
    THEN order_failure(stock_code, stock_name)          \* int(v) raises
    ELSE LET sell_total == ladder_sum(reply.f)
             buy_total == ladder_sum(reply.g)
         IN  [code |-> stock_code,
              name |-> get(reply.n, stock_name),
              currentPrice |-> get(reply.z, "-"),
              buyTotal |-> buy_total,
              sellTotal |-> sell_total,
              diff |-> buy_total - sell_total,
              time |-> get(reply.t, ""),
              success |-> TRUE]

\* {**stock, **result}
merge_result(stock, result) ==
    IF result.success
    THEN [code |-> result.code, name |-> result.name,
          yesterday_buy |-> stock.yesterday_buy,
          currentPrice |-> result.currentPrice, buyTotal |-> result.buyTotal,
          sellTotal |-> result.sellTotal, diff |-> result.diff,
          time |-> result.time, success |-> TRUE]
    ELSE [code |-> result.code, name |-> result.name,
          yesterday_buy |-> stock.yesterday_buy, success |-> FALSE]

\* fetch_market_data: replies[i] is the reply to the request for stocks[i]
fetch_results(stocks, replies) ==
    [i \in 1..Len(stocks) |->
        merge_result(stocks[i],
            get_stock_order_info(stocks[i].code.text, stocks[i].name.text, replies[i]))]

fetch_market_data(file, replies) ==
    LET stocks == fetch_load_buy_ranking(file).rows
    IN  IF stocks = <<>> THEN <<>> ELSE fetch_results(stocks, replies)

Reply(kind, n, z, f, g, t) ==
    [kind |-> kind, n |-> n, z |-> z, f |-> f, g |-> g, t |-> t]
Failed(kind) == Reply(kind, MISSING, MISSING, <<>>, <<>>, MISSING)

(***************************************************************************)
(* fetch_stock_data.save_data and update_data_list.                        *)
(***************************************************************************)
DayLen == 24 * 60 * 60
timestamp_of(now) == now                  \* %Y%m%d_%H%M%S: the second
date_of(now) == now \div DayLen           \* %Y-%m-%d
time_of(now) == now % DayLen              \* %H:%M:%S

Procs == {1, 2}

latest_data(p) ==
    [timestamp |-> run[p].timestamp, date |-> run[p].date_str,
     time |-> run[p].time_str, test_mode |-> FALSE,
     tse |-> run[p].tse_data, otc |-> run[p].otc_data]

\* the name of the historical file: stock_data_<timestamp>.json
history_file(timestamp) == timestamp

list_entry(timestamp, date_str, time_str, tse_count, otc_count) ==
    [timestamp |-> timestamp, date |-> date_str, time |-> time_str,
     tse_count |-> tse_count, otc_count |-> otc_count,
     filename |-> history_file(timestamp)]

\* data_list[-101:]: the cut keeps one entry too many
keep_recent_one_more(data_list) ==
    IF Len(data_list) <= HistoryCap + 1 THEN data_list
    ELSE SubSeq(data_list, Len(data_list) - HistoryCap, Len(data_list))

\* data_list[:100]: the cut drops the newest entries instead of the oldest
keep_oldest(data_list) ==
    IF Len(data_list) <= HistoryCap THEN data_list
    ELSE SubSeq(data_list, 1, HistoryCap)

\* data_list[-100:]
keep_recent(data_list) ==
    IF Len(data_list) <= HistoryCap THEN data_list
    ELSE SubSeq(data_list, Len(data_list) - HistoryCap + 1, Len(data_list))

run_entry(p) ==
    list_entry(run[p].timestamp, run[p].date_str, run[p].time_str,
               Len(run[p].tse_data), Len(run[p].otc_data))

\* the list is written as long as it has grown
updated_list_uncut(existing, entry) ==
    Append(IF existing.st = "absent" THEN <<>> ELSE existing.data, entry)

\* update_data_list up to the write: read (or start empty), append, cut
updated_list(existing, entry) ==
    keep_recent(Append(IF existing.st = "absent" THEN <<>> ELSE existing.data, entry))

(***************************************************************************)
(* stock_analysis.py: company lists, merge_stocks, the sort of main,       *)
(* get_stock_info and fetch_stocks_price.  A dict is the sequence of its   *)
(* items in insertion order.                                               *)
(***************************************************************************)
MAX_RETRY == 3
Modes == {"TSE", "OTC", "BOTH"}

\* load_stock_list: a company list (as pandas read it: rows of code, name)
\* becomes a dict keyed by the name
names_put(d, val) ==
    IF \E i \in 1..Len(d) : d[i].key = val.key
    THEN [i \in 1..Len(d) |-> IF d[i].key = val.key THEN val ELSE d[i]]
    ELSE Append(d, val)

RECURSIVE names_update(_, _)
names_update(d, items) ==
    IF items = <<>> THEN d
    ELSE names_update(names_put(d, Head(items)), Tail(items))

load_stock_list(file, market_type) ==
    IF file.st # "complete" THEN <<>>
    ELSE names_update(<<>>,
            [i \in 1..Len(file.data) |->
                [key |-> file.data[i].name, code |-> file.data[i].code,
                 name |-> file.data[i].name, market |-> market_type]])

\* check_required_files
check_required_files(files) ==
    /\ files.tse_csv.st # "absent"
    /\ files.otc_csv.st # "absent"
    /\ files.tse_rank.st # "absent"
    /\ files.otc_rank.st # "absent"

\* analyze_news_stocks, by its result: the stocks of all_stocks the news
\* mention, each with the number of titles that do
stock_mentions_of(mentions, all_stocks) ==
    LET known(m) == \E i \in 1..Len(all_stocks) : all_stocks[i].key = m.key
        info(m) == all_stocks[CHOOSE i \in 1..Len(all_stocks) : all_stocks[i].key = m.key]
        kept == SelectSeq(mentions, known)
    IN  [i \in 1..Len(kept) |->
            [key |-> kept[i].key, count |-> kept[i].count, info |-> info(kept[i])]]

has_code(merged, code) == \E i \in 1..Len(merged) : merged[i].code = code

\* merge_stocks, first loop: the stocks the news mention
RECURSIVE merge_news_stocks(_, _, _, _)
merge_news_stocks(news_stocks, buy_ranking, market_type, merged) ==
    IF news_stocks = <<>> THEN merged
    ELSE LET data == Head(news_stocks)
             code == data.info.code
             found == {i \in 1..Len(buy_ranking) : buy_ranking[i].code.text = code}
             buy_volume == IF found = {} THEN 0
                           ELSE buy_ranking[CHOOSE i \in found : TRUE].volume
         IN  IF data.info.market = market_type
             THEN merge_news_stocks(Tail(news_stocks), buy_ranking, market_type,
                     dict_put(merged, code,
                         [code |-> code, name |-> data.info.name,
                          market |-> market_type, mention_count |-> data.count,
                          yesterday_buy |-> buy_volume, source |-> "news"]))
             ELSE merge_news_stocks(Tail(news_stocks), buy_ranking, market_type, merged)

\* merge_stocks, second loop: the stocks of the ranking file
RECURSIVE merge_buy_ranking(_, _, _, _)
merge_buy_ranking(buy_ranking, stock_list, market_type, merged) ==
    IF buy_ranking = <<>> THEN merged
    ELSE LET buy_info == Head(buy_ranking)
             code == buy_info.code.text
             listed == {i \in 1..Len(stock_list) :
                          stock_list[i].code = code /\ stock_list[i].market = market_type}
             first == CHOOSE i \in listed : \A j \in listed : i <= j
             name == IF listed = {} THEN buy_info.name.text ELSE stock_list[first].name
         IN  IF ~has_code(merged, code)
             THEN merge_buy_ranking(Tail(buy_ranking), stock_list, market_type,
                     Append(merged,
                         [code |-> code, name |-> name, market |-> market_type,
                          mention_count |-> 0, yesterday_buy |-> buy_info.volume,
                          source |-> "buy"]))
             ELSE merge_buy_ranking(Tail(buy_ranking), stock_list, market_type,
                     [i \in 1..Len(merged) |->
                         IF merged[i].code = code
                         THEN [merged[i] EXCEPT !.yesterday_buy = buy_info.volume]
                         ELSE merged[i]])

merge_stocks(news_stocks, buy_ranking, stock_list, market_type) ==
    merge_buy_ranking(buy_ranking, stock_list, market_type,
        merge_news_stocks(news_stocks, buy_ranking, market_type, <<>>))

\* sorted(..., key=lambda x: (x['mention_count'], x['yesterday_buy']), reverse=True):
\* descending and stable
key_ge(a, b) ==
    \/ a.mention_count > b.mention_count
    \/ a.mention_count = b.mention_count /\ a.yesterday_buy >= b.yesterday_buy

insert_sorted(sorted, x) ==
    LET k == Cardinality({i \in 1..Len(sorted) : key_ge(sorted[i], x)})
    IN  SubSeq(sorted, 1, k) \o <<x>> \o SubSeq(sorted, k + 1, Len(sorted))

RECURSIVE sort_merged(_, _)
sort_merged(todo, sorted) ==
    IF todo = <<>> THEN sorted
    ELSE sort_merged(Tail(todo), insert_sorted(sorted, Head(todo)))

\* get_stock_info: at most MAX_RETRY attempts; an attempt times out, raises
\* (raise_for_status, the parse) or returns the page it read.  The fields a
\* page lacks stay at their default.
NoData == "<no data>"
None == [ok |-> FALSE]

page_info(page) ==
    [ok |-> TRUE, price |-> get(page.price, NoData), open |-> get(page.open, NoData),
     change |-> get(page.change, NoData), percent |-> get(page.percent, NoData),
     buy |-> get(page.buy, NoData), sell |-> get(page.sell, NoData)]

\* the page asked for: f"{stock_code}{suffix}"
yahoo_code(stock_code, market) ==
    [code |-> stock_code, suffix |-> IF market = "TSE" THEN ".TW" ELSE ".TWO"]

RECURSIVE get_stock_info_from(_, _)
get_stock_info_from(attempts, attempt) ==
    IF attempt >= MAX_RETRY \/ attempt >= Len(attempts) THEN None
    ELSE IF attempts[attempt + 1].kind = "page"
         THEN page_info(attempts[attempt + 1].page)
         ELSE get_stock_info_from(attempts, attempt + 1)

get_stock_info(attempts) == get_stock_info_from(attempts, 0)

\* time.sleep(1) is called after the last attempt too
RECURSIVE stock_info_events_sleep_always(_, _)
stock_info_events_sleep_always(attempts, attempt) ==
    IF attempt >= MAX_RETRY \/ attempt >= Len(attempts) THEN <<>>
    ELSE IF attempts[attempt + 1].kind = "page" THEN <<"request">>
         ELSE <<"request", "sleep">> \o stock_info_events_sleep_always(attempts, attempt + 1)

\* what get_stock_info does on the way: its requests.get and time.sleep calls
RECURSIVE stock_info_events(_, _)
stock_info_events(attempts, attempt) ==
    IF attempt >= MAX_RETRY \/ attempt >= Len(attempts) THEN <<>>
    ELSE IF attempts[attempt + 1].kind = "page" THEN <<"request">>
         ELSE <<"request">>
                 \o (IF attempt < MAX_RETRY - 1 THEN <<"sleep">> ELSE <<>>)
                 \o stock_info_events(attempts, attempt + 1)

\* scrape_twstock_news: at most MAX_RETRY attempts; an attempt times out,
\* raises, is answered with a status other than 200, or returns the news
\* of the page (their number here)
RECURSIVE scrape_from(_, _)
scrape_from(attempts, attempt) ==
    IF attempt >= MAX_RETRY \/ attempt >= Len(attempts) THEN 0
    ELSE IF attempts[attempt + 1].kind = "page" THEN attempts[attempt + 1].news
    ELSE IF attempts[attempt + 1].kind = "status" /\ ~(attempt < MAX_RETRY - 1) THEN 0
    ELSE scrape_from(attempts, attempt + 1)

scrape_twstock_news(attempts) == scrape_from(attempts, 0)

RECURSIVE scrape_events(_, _)
scrape_events(attempts, attempt) ==
    IF attempt >= MAX_RETRY \/ attempt >= Len(attempts) THEN <<>>
    ELSE IF attempts[attempt + 1].kind = "page" THEN <<"request">>
    ELSE IF attempts[attempt + 1].kind = "status" /\ ~(attempt < MAX_RETRY - 1)
    THEN <<"request">>
    ELSE <<"request">>
            \o (IF attempt < MAX_RETRY - 1 THEN <<"sleep">> ELSE <<>>)
            \o scrape_events(attempts, attempt + 1)

\* fetch_stocks_price: the stocks in the order given, those without info left out
\* the record takes no volume over from the ranking
price_record_without_buy(stock_data, info, now) ==
    [code |-> stock_data.code, name |-> stock_data.name, market |-> stock_data.market,
     mention_count |-> stock_data.mention_count,
     yesterday_buy |-> 0,
     current_price |-> info.price, open_price |-> info.open,
     change |-> info.change, change_percent |-> info.percent,
     buy_volume |-> info.buy, sell_volume |-> info.sell,
     update_time |-> now]

price_record(stock_data, info, now) ==
    [code |-> stock_data.code, name |-> stock_data.name, market |-> stock_data.market,
     mention_count |-> stock_data.mention_count,
     yesterday_buy |-> stock_data.yesterday_buy,
     current_price |-> info.price, open_price |-> info.open,
     change |-> info.change, change_percent |-> info.percent,
     buy_volume |-> info.buy, sell_volume |-> info.sell,
     update_time |-> now]

\* the records are collected back to front
RECURSIVE fetch_from_reversed(_, _, _, _)
fetch_from_reversed(stock_list, infos, now, i) ==
    IF i > Len(stock_list) THEN <<>>
    ELSE IF infos[i].ok
         THEN fetch_from_reversed(stock_list, infos, now, i + 1)
                 \o <<price_record(stock_list[i], infos[i], now)>>
         ELSE fetch_from_reversed(stock_list, infos, now, i + 1)

RECURSIVE fetch_from(_, _, _, _)
fetch_from(stock_list, infos, now, i) ==
    IF i > Len(stock_list) THEN <<>>
    ELSE IF infos[i].ok
         THEN <<price_record(stock_list[i], infos[i], now)>>
                 \o fetch_from(stock_list, infos, now, i + 1)
         ELSE fetch_from(stock_list, infos, now, i + 1)

fetch_stocks_price(stock_list, infos, now) == fetch_from(stock_list, infos, now, 1)

\* main, sixth stage: the output of one market
market_output(market, total_news, stock_data, now) ==
    [update_time |-> now, market |-> market, total_news |-> total_news,
     hot_stocks_count |-> Len(stock_data), stocks |-> stock_data]

selected(mode, market) == mode = market \/ mode = "BOTH"

NoAnalysis ==
    [tse_sorted |-> <<>>, otc_sorted |-> <<>>, tse_info |-> <<>>, otc_info |-> <<>>,
     tse_stock_data |-> <<>>, otc_stock_data |-> <<>>, total_news |-> 0,
     news_save |-> "skipped", fetched |-> FALSE,
     news_tries |-> <<>>, tse_tries |-> <<>>, otc_tries |-> <<>>]

\* stock_loop.main is not running
NoLoop == [pc |-> "off", run_count |-> 0, success |-> "none"]

InitAnIdle ==
    /\ aMode = "TSE"
    /\ aFiles = [tse_csv |-> ABSENT, otc_csv |-> ABSENT,
                 tse_rank |-> ABSENT, otc_rank |-> ABSENT]
    /\ aOut = [m \in Markets |-> ABSENT]
    /\ aPc = "idle"
    /\ aRun = NoAnalysis

(***************************************************************************)
(* The runs of fetch_stock_data.main.  Two may overlap: nothing in the     *)
(* code keeps a second process from starting while the first one runs.     *)
(***************************************************************************)
NoRun ==
    [tse_data |-> <<>>, otc_data |-> <<>>, timestamp |-> 0, date_str |-> 0,
     time_str |-> 0, data_list |-> <<>>]
NoWrite == [latest |-> ABSENT, hist |-> ABSENT]

GoodLine1 == <<Fld("1"), Fld("2330"), Fld("TSMC"), Fld("100")>>
HeaderLine == <<Fld("# TSE - 2024-01-02")>>
GoodLine2 == <<Fld("2"), Fld("2317"), Fld("HonHai"), Fld("-5")>>
OkReply == Reply("ok", "TSMC-q", "580", <<"10", "20">>, <<"20", "">>, "13:30:00")
DataReplies == {Failed("timeout"), OkReply}

\* an index and artifacts left by earlier runs: n entries, one run a second
old_entry(i) == list_entry(i, date_of(i), time_of(i), 0, 0)
old_index(n) == [i \in 1..n |-> old_entry(i - n - 1)]
OldData ==
    [timestamp |-> -1, date |-> date_of(-1), time |-> time_of(-1),
     test_mode |-> FALSE, tse |-> <<>>, otc |-> <<>>]
InitLens == {HistoryCap - 1}
Stamps == -1..MaxClock

Requests(file) == 1..Len(fetch_load_buy_ranking(file).rows)

InitLoadIdle ==
    /\ loadIn = ABSENT
    /\ loadOut = [who |-> "none", err |-> "none", rows |-> <<>>]

InitData ==
    /\ clock = 0
    /\ rank = [m \in Markets |->
                 IF m = "TSE" THEN File(<<GoodLine1>>) ELSE File(<<HeaderLine>>)]
    /\ \/ /\ index = ABSENT
          /\ latest = ABSENT
          /\ hist = [t \in Stamps |-> ABSENT]
       \/ /\ \E n \in InitLens : index = File(old_index(n))
          /\ latest = File(OldData)
          /\ hist = [t \in Stamps |-> IF t = -1 THEN File(OldData) ELSE ABSENT]
    /\ appended = IF index.st = "absent" THEN <<>> ELSE index.data
    /\ pc = [p \in Procs |-> "idle"]
    /\ wake = [p \in Procs |-> 0]
    /\ run = [p \in Procs |-> NoRun]
    /\ runs = 0
    /\ wrote = [p \in Procs |-> NoWrite]
    /\ exchange = DataReplies
    /\ prog = "fetch_stock_data"
    /\ loop = NoLoop

InitDataIdle ==
    /\ clock = 0
    /\ rank = [m \in Markets |-> ABSENT]
    /\ index = ABSENT
    /\ latest = ABSENT
    /\ hist = [t \in Stamps |-> ABSENT]
    /\ appended = <<>>
    /\ pc = [p \in Procs |-> "idle"]
    /\ wake = [p \in Procs |-> 0]
    /\ run = [p \in Procs |-> NoRun]
    /\ runs = 0
    /\ wrote = [p \in Procs |-> NoWrite]
    /\ exchange = DataReplies
    /\ prog = "fetch_stock_data"
    /\ loop = NoLoop

Init == InitLoadIdle /\ InitData /\ InitAnIdle

Ended == {"done", "failed"}

\* main: the TSE market is fetched, then time.sleep(5) starts
Start(p) ==
    /\ prog = "fetch_stock_data"
    /\ pc[p] \in {"idle"} \cup Ended
    /\ runs < MaxRuns
    /\ runs' = runs + 1
    /\ \E replies \in [Requests(rank["TSE"]) -> exchange] :
          run' = [run EXCEPT ![p] =
                     [NoRun EXCEPT !.tse_data = fetch_market_data(rank["TSE"], replies)]]
    /\ wake' = [wake EXCEPT ![p] = clock + FetchSleep]
    /\ wrote' = [wrote EXCEPT ![p] = NoWrite]
    /\ pc' = [pc EXCEPT ![p] = "sleep"]
    /\ UNCHANGED <<clock, rank, latest, hist, index, appended>>
    /\ UNCHANGED <<varsLoad, varsAn, varsEnv>>

\* main: time.sleep(5) returns, five seconds after the call at the earliest
\* (the clock is moved on to that second if it is not there yet); the OTC
\* market is fetched and save_data is entered
FetchOtc(p) ==
    /\ pc[p] = "sleep"
    /\ wake[p] <= MaxClock
    /\ clock' = IF clock >= wake[p] THEN clock ELSE wake[p]
    /\ wake' = [wake EXCEPT ![p] = 0]
    /\ \E replies \in [Requests(rank["OTC"]) -> exchange] :
          run' = [run EXCEPT ![p].otc_data = fetch_market_data(rank["OTC"], replies)]
    /\ pc' = [pc EXCEPT ![p] = "stamp"]
    /\ UNCHANGED <<rank, latest, hist, index, runs, wrote, appended>>
    /\ UNCHANGED <<varsLoad, varsAn, varsEnv>>

\* save_data: the three datetime.now() calls; a second may pass between them
Stamp(p) ==
    /\ pc[p] = "stamp"
    /\ \E d1, d2 \in {0, 1} :
          /\ d1 + d2 <= 1
          /\ clock + d1 + d2 <= MaxClock
          /\ run' = [run EXCEPT ![p].timestamp = timestamp_of(clock),
                                ![p].date_str = date_of(clock + d1),
                                ![p].time_str = time_of(clock + d1 + d2)]
          /\ clock' = clock + d1 + d2
    /\ pc' = [pc EXCEPT ![p] = "open_latest"]
    /\ UNCHANGED <<rank, latest, hist, index, wake, runs, wrote, appended>>
    /\ UNCHANGED <<varsLoad, varsAn, varsEnv>>

\* open(latest_file, 'w') truncates data/latest.json in place
OpenLatest(p) ==
    /\ pc[p] = "open_latest"
    /\ latest' = PARTIAL
    /\ pc' = [pc EXCEPT ![p] = "dump_latest"]
    /\ UNCHANGED <<clock, rank, hist, index, wake, run, runs, wrote, appended>>
    /\ UNCHANGED <<varsLoad, varsAn, varsEnv>>

\* json.dump(latest_data, f) and the close of the with block
DumpLatest(p) ==
    /\ pc[p] = "dump_latest"
    /\ latest' = File(latest_data(p))
    /\ wrote' = [wrote EXCEPT ![p].latest = File(latest_data(p))]
    /\ pc' = [pc EXCEPT ![p] = "open_hist"]
    /\ UNCHANGED <<clock, rank, hist, index, wake, run, runs, appended>>
    /\ UNCHANGED <<varsLoad, varsAn, varsEnv>>

\* open(history_file, 'w')
OpenHist(p) ==
    /\ pc[p] = "open_hist"
    /\ hist' = [hist EXCEPT ![history_file(run[p].timestamp)] = PARTIAL]
    /\ pc' = [pc EXCEPT ![p] = "dump_hist"]
    /\ UNCHANGED <<clock, rank, latest, index, wake, run, runs, wrote, appended>>
    /\ UNCHANGED <<varsLoad, varsAn, varsEnv>>

\* the historical file gets a content of its own, stamped when it is written
history_data_restamped(p) == [latest_data(p) EXCEPT !.timestamp = timestamp_of(clock)]

history_data(p) == latest_data(p)

\* update_data_list is called with the historical file opened and not written
DumpHist_skipped(p) ==
    /\ pc[p] = "dump_hist"
    /\ pc' = [pc EXCEPT ![p] = "read_list"]
    /\ UNCHANGED <<clock, rank, latest, hist, index, wake, run, runs, wrote, appended>>
    /\ UNCHANGED <<varsLoad, varsAn, varsEnv>>

DumpHist(p) ==
    /\ pc[p] = "dump_hist"
    /\ hist' = [hist EXCEPT ![history_file(run[p].timestamp)] = File(history_data(p))]
    /\ wrote' = [wrote EXCEPT ![p].hist = File(history_data(p))]
    /\ pc' = [pc EXCEPT ![p] = "read_list"]
    /\ UNCHANGED <<clock, rank, latest, index, wake, run, runs, appended>>
    /\ UNCHANGED <<varsLoad, varsAn, varsEnv>>

\* update_data_list: os.path.exists, json.load, append, data_list[-100:];
\* json.load of a file another writer has truncated raises
ReadList(p) ==
    /\ pc[p] = "read_list"
    /\ IF index.st = "partial"
       THEN /\ pc' = [pc EXCEPT ![p] = "failed"]
            /\ run' = [run EXCEPT ![p] = NoRun]
            /\ wrote' = [wrote EXCEPT ![p] = NoWrite]
       ELSE /\ pc' = [pc EXCEPT ![p] = "open_list"]
            /\ run' = [run EXCEPT ![p].data_list = updated_list(index, run_entry(p))]
            /\ wrote' = wrote
    /\ UNCHANGED <<clock, rank, latest, hist, index, wake, runs, appended>>
    /\ UNCHANGED <<varsLoad, varsAn, varsEnv>>

\* open(list_file, 'w')
OpenList(p) ==
    /\ pc[p] = "open_list"
    /\ index' = PARTIAL
    /\ pc' = [pc EXCEPT ![p] = "dump_list"]
    /\ UNCHANGED <<clock, rank, latest, hist, wake, run, runs, wrote, appended>>
    /\ UNCHANGED <<varsLoad, varsAn, varsEnv>>

DumpList(p) ==
    /\ pc[p] = "dump_list"
    /\ index' = File(run[p].data_list)
    /\ appended' = Append(appended, run_entry(p))
    /\ pc' = [pc EXCEPT ![p] = "done"]
    /\ run' = [run EXCEPT ![p] = NoRun]
    /\ wrote' = [wrote EXCEPT ![p] = NoWrite]
    /\ UNCHANGED <<clock, rank, latest, hist, wake, runs>>
    /\ UNCHANGED <<varsLoad, varsAn, varsEnv>>

Writing == {"open_latest", "dump_latest", "open_hist", "dump_hist", "open_list", "dump_list"}

\* open, json.load or json.dump raises (disk full, permission), which nothing
\* in main catches, or the process is terminated: the run ends where it is
Abort(p) ==
    /\ pc[p] \in Writing \cup {"read_list"}
    /\ pc' = [pc EXCEPT ![p] = "failed"]
    /\ run' = [run EXCEPT ![p] = NoRun]
    /\ wrote' = [wrote EXCEPT ![p] = NoWrite]
    /\ UNCHANGED <<clock, rank, latest, hist, index, wake, runs, appended>>
    /\ UNCHANGED <<varsLoad, varsAn, varsEnv>>

Step(p) ==
    \/ Start(p) \/ FetchOtc(p) \/ Stamp(p)
    \/ OpenLatest(p) \/ DumpLatest(p) \/ OpenHist(p) \/ DumpHist(p)
    \/ ReadList(p) \/ OpenList(p) \/ DumpList(p)
    \/ Abort(p)

Next == \E p \in Procs : Step(p)

Spec == Init /\ [][Next]_vars

(***************************************************************************)
(* The three loaders on one ranking file.                                  *)
(***************************************************************************)
LoadLines ==
    { HeaderLine,
      <<Fld("")>>,
      GoodLine1,
      GoodLine2,
      <<Fld("3"), Fld("1101"), Fld("Cement")>>,
      <<Fld("garbage")>>,
      <<Fld("4"), Fld("2603"), Fld("Evergreen"), Fld("abc")>>,
      <<Pad("5"), Pad("3008"), Pad("Largan"), Pad("250")>>,
      <<Fld("6"), Fld("2412"), Fld("CHT"), Fld("0"), Fld("extra")>>,
      <<Fld("7"), Fld("2330"), Fld("TSMC-b"), Fld("7")>> }

RECURSIVE SeqsUpTo(_, _)
SeqsUpTo(S, n) ==
    IF n = 0 THEN {<<>>}
    ELSE LET shorter == SeqsUpTo(S, n - 1)
         IN  shorter \cup {Append(q, x) : q \in {r \in shorter : Len(r) = n - 1}, x \in S}

LoadFiles == {ABSENT} \cup {File(lines) : lines \in SeqsUpTo(LoadLines, MaxLines)}

InitLoad ==
    /\ loadIn \in LoadFiles
    /\ loadOut = [who |-> "none", err |-> "none", rows |-> <<>>]

Called(who, result) == [who |-> who, err |-> result.err, rows |-> result.rows]

LoadAnalysis ==
    /\ loadOut.who = "none"
    /\ loadOut' = Called("analysis", load_buy_ranking(loadIn))
    /\ UNCHANGED loadIn
    /\ UNCHANGED <<varsData, varsAn, varsEnv>>

LoadFetch ==
    /\ loadOut.who = "none"
    /\ loadOut' = Called("fetch", fetch_load_buy_ranking(loadIn))
    /\ UNCHANGED loadIn
    /\ UNCHANGED <<varsData, varsAn, varsEnv>>

LoadOld ==
    /\ loadOut.who = "none"
    /\ loadOut' = Called("old", read_ranking_file(loadIn))
    /\ UNCHANGED loadIn
    /\ UNCHANGED <<varsData, varsAn, varsEnv>>

NextLoad == LoadAnalysis \/ LoadFetch \/ LoadOld

InitOfLoad == InitLoad /\ InitDataIdle /\ InitAnIdle

SpecLoad == InitOfLoad /\ [][NextLoad]_vars

(***************************************************************************)
(* One run at a time: the runs of fetch_stock_data.main follow each other. *)
(***************************************************************************)
NextSeq == Step(1)

SpecSeq == Init /\ [][NextSeq]_vars

(***************************************************************************)
(* One run of either program: fetch_stock_data.main, or                    *)
(* stock_analysis.main on its four input files.                            *)
(***************************************************************************)
Programs == {"fetch_stock_data", "stock_analysis"}

OtcLine == <<Fld("1"), Fld("6488"), Fld("Wafer"), Fld("250")>>
TseRank == File(<<HeaderLine, GoodLine1, GoodLine2>>)
OtcRank == File(<<OtcLine>>)
\* a ranking file that lists 2330 on two lines
DupLine == <<Fld("7"), Fld("2330"), Fld("TSMC-b"), Fld("7")>>
TseRankDup == File(<<GoodLine1, GoodLine2, DupLine>>)
TseCsv == File(<<[code |-> "2330", name |-> "TSMC-co"], [code |-> "2317", name |-> "HonHai"]>>)
OtcCsv == File(<<[code |-> "6488", name |-> "GlobalWafers"]>>)

FetchRanks == [TSE : {TseRank, TseRankDup, ABSENT}, OTC : {OtcRank, ABSENT}]
FetchReplies == {Failed("timeout"), Failed("status"), Failed("badjson"), OkReply}

AnalysisFiles ==
    [tse_csv : {TseCsv, ABSENT}, otc_csv : {OtcCsv, ABSENT},
     tse_rank : {TseRank, TseRankDup, ABSENT}, otc_rank : {OtcRank, ABSENT}]

\* the titles of the day, by the stocks they name
MentionChoices ==
    { <<>>,
      <<[key |-> "HonHai", count |-> 2]>>,
      <<[key |-> "GlobalWafers", count |-> 1], [key |-> "TSMC-co", count |-> 1]>> }
NewsCounts == {0, 2}

\* what the quote page answers to the attempts for one stock
Page(price, open, change, percent, buy, sell) ==
    [kind |-> "page",
     page |-> [price |-> price, open |-> open, change |-> change,
               percent |-> percent, buy |-> buy, sell |-> sell]]
Raised(kind) ==
    [kind |-> kind,
     page |-> [price |-> MISSING, open |-> MISSING, change |-> MISSING,
               percent |-> MISSING, buy |-> MISSING, sell |-> MISSING]]
FullPage == Page("580", "575", "+5", "+0.87%", "120", "80")
BarePage == Page(MISSING, MISSING, MISSING, MISSING, MISSING, MISSING)
AttemptPlans ==
    { <<FullPage>>,
      <<Raised("timeout"), FullPage>>,
      <<Raised("error"), Raised("error"), BarePage>>,
      <<Raised("timeout"), Raised("error"), Raised("timeout"), FullPage>> }

\* what the news site answers to the attempts of one scrape
NewsPage(n) == [kind |-> "page", news |-> n]
NewsRaised(kind) == [kind |-> kind, news |-> 0]
NewsPlans ==
    { <<NewsPage(2)>>,
      <<NewsRaised("timeout"), NewsPage(2)>>,
      <<NewsRaised("status"), NewsRaised("timeout"), NewsPage(0)>>,
      <<NewsRaised("error"), NewsRaised("timeout"), NewsRaised("status"), NewsPage(2)>>,
      <<NewsRaised("status"), NewsRaised("status"), NewsRaised("error"), NewsPage(2)>> }

\* the calls of a run: what each was answered and what it did
stock_tries(plans) ==
    [i \in DOMAIN plans |->
        [attempts |-> plans[i], events |-> stock_info_events(plans[i], 0)]]
scrape_tries(plans) ==
    [i \in DOMAIN plans |->
        [attempts |-> plans[i], events |-> scrape_events(plans[i], 0)]]

OldOutput(market) ==
    [update_time |-> -1, market |-> market, total_news |-> 1,
     hot_stocks_count |-> 0, stocks |-> <<>>]

InitFetch ==
    /\ InitLoadIdle
    /\ exchange = FetchReplies
    /\ prog \in Programs
    /\ loop = NoLoop
    /\ clock = 0
    /\ index = ABSENT
    /\ latest = ABSENT
    /\ hist = [t \in Stamps |-> ABSENT]
    /\ appended = <<>>
    /\ pc = [p \in Procs |-> "idle"]
    /\ wake = [p \in Procs |-> 0]
    /\ run = [p \in Procs |-> NoRun]
    /\ runs = 0
    /\ wrote = [p \in Procs |-> NoWrite]
    /\ IF prog = "fetch_stock_data"
       THEN /\ rank \in FetchRanks
            /\ InitAnIdle
       ELSE /\ rank = [m \in Markets |-> ABSENT]
            /\ aMode \in Modes
            /\ aFiles \in AnalysisFiles
            /\ \/ aOut = [m \in Markets |-> ABSENT]
               \/ aOut = [m \in Markets |-> File(OldOutput(m))]
            /\ aPc = "idle"
            /\ aRun = NoAnalysis

\* main: check_required_files; sys.exit(1) when a file is missing
AStart ==
    /\ prog = "stock_analysis" \/ loop.pc = "analysis"
    /\ aPc = "idle"
    /\ aPc' = IF check_required_files(aFiles) THEN "fetch" ELSE "exit1"
    /\ UNCHANGED <<aMode, aFiles, aOut, aRun>>
    /\ UNCHANGED <<varsLoad, varsData, varsEnv>>

sorted_market(mode, market, stock_mentions, file, all_stocks) ==
    IF selected(mode, market)
    THEN sort_merged(merge_stocks(stock_mentions, load_buy_ranking(file).rows,
                                  all_stocks, market), <<>>)
    ELSE <<>>

\* save_news_to_json is called when the scrape brought news; what open or
\* json.dump raises there is logged and goes no further
NewsSaves == {"skipped", "written", "open_raises", "dump_raises"}

\* main, stages one to five: the news, the company lists, the rankings, the
\* merge, the sort and the quotes of the selected markets
AFetch ==
    /\ aPc = "fetch"
    /\ \E total_news \in NewsCounts, mentions \in MentionChoices,
          news_plan \in NewsPlans, news_save \in NewsSaves :
          /\ news_save = "skipped" <=> scrape_twstock_news(news_plan) = 0
          /\ LET tse_stocks == load_stock_list(aFiles.tse_csv, "TSE")
                 otc_stocks == load_stock_list(aFiles.otc_csv, "OTC")
                 all_stocks == names_update(tse_stocks, otc_stocks)
                 stock_mentions ==
                     stock_mentions_of(IF total_news = 0 THEN <<>> ELSE mentions, all_stocks)
                 sorted_tse == sorted_market(aMode, "TSE", stock_mentions,
                                             aFiles.tse_rank, all_stocks)
                 sorted_otc == sorted_market(aMode, "OTC", stock_mentions,
                                             aFiles.otc_rank, all_stocks)
             IN  \E tse_plans \in [1..Len(sorted_tse) -> AttemptPlans],
                    otc_plans \in [1..Len(sorted_otc) -> AttemptPlans] :
                    LET tse_info == [i \in 1..Len(sorted_tse) |-> get_stock_info(tse_plans[i])]
                        otc_info == [i \in 1..Len(sorted_otc) |-> get_stock_info(otc_plans[i])]
                    IN  aRun' = [tse_sorted |-> sorted_tse, otc_sorted |-> sorted_otc,
                                 tse_info |-> tse_info, otc_info |-> otc_info,
                                 tse_stock_data |-> fetch_stocks_price(sorted_tse, tse_info, clock),
                                 otc_stock_data |-> fetch_stocks_price(sorted_otc, otc_info, clock),
                                 total_news |-> total_news,
                                 news_save |-> news_save,
                                 fetched |-> TRUE,
                                 news_tries |-> scrape_tries(<<news_plan>>),
                                 tse_tries |-> stock_tries(tse_plans),
                                 otc_tries |-> stock_tries(otc_plans)]
    /\ aPc' = "save_tse"
    /\ UNCHANGED <<aMode, aFiles, aOut>>
    /\ UNCHANGED <<varsLoad, varsData, varsEnv>>

\* main, sixth stage, one market: nothing is written for an empty list;
\* open(..., 'w') or json.dump may raise, and main then ends in sys.exit(1)
WriteOutcomes == {"written", "open_raises", "dump_raises"}

ASave(market, stock_data, next) ==
    IF stock_data = <<>>
    THEN /\ aPc' = next
         /\ aOut' = aOut
    ELSE \E outcome \in WriteOutcomes :
            /\ aOut' = CASE outcome = "written" ->
                              [aOut EXCEPT ![market] =
                                  File(market_output(market, aRun.total_news,
                                                     stock_data, clock))]
                         [] outcome = "open_raises" -> aOut
                         [] outcome = "dump_raises" -> [aOut EXCEPT ![market] = PARTIAL]
            /\ aPc' = IF outcome = "written" THEN next ELSE "exit1"

ASaveTse ==
    /\ aPc = "save_tse"
    /\ ASave("TSE", aRun.tse_stock_data, "save_otc")
    /\ UNCHANGED <<aMode, aFiles, aRun>>
    /\ UNCHANGED <<varsLoad, varsData, varsEnv>>

ASaveOtc ==
    /\ aPc = "save_otc"
    /\ ASave("OTC", aRun.otc_stock_data, "exit0")
    /\ UNCHANGED <<aMode, aFiles, aRun>>
    /\ UNCHANGED <<varsLoad, varsData, varsEnv>>

AStep == AStart \/ AFetch \/ ASaveTse \/ ASaveOtc

NextFetch == Step(1) \/ AStep

SpecFetch == InitFetch /\ [][NextFetch]_vars

(***************************************************************************)
(* fetch_stock_data.main against an exchange that gives one answer: the    *)
(* ranking files name one TSE and one OTC stock.                           *)
(***************************************************************************)
\* the '_'-separated entries of the f and g fields of an answer
Ladders ==
    { <<>>, <<"">>, <<"10", "20">>, <<"20", "">>, <<"-3", "x">>, <<"10", "1-2">> }
QuoteNames == {MISSING, "TSMC-q"}
QuoteReplies ==
    {Failed(kind) : kind \in {"timeout", "badjson", "status", "rtcode", "empty"}}
    \cup {Reply("ok", n, "580", f, g, "13:30:00") : n \in QuoteNames, f \in Ladders, g \in Ladders}

InitQuote ==
    /\ InitLoadIdle
    /\ InitAnIdle
    /\ exchange \in {{reply} : reply \in QuoteReplies}
    /\ prog = "fetch_stock_data"
    /\ loop = NoLoop
    /\ clock = 0
    /\ rank = [m \in Markets |-> IF m = "TSE" THEN File(<<GoodLine1>>) ELSE OtcRank]
    /\ index = ABSENT
    /\ latest = ABSENT
    /\ hist = [t \in Stamps |-> ABSENT]
    /\ appended = <<>>
    /\ pc = [p \in Procs |-> "idle"]
    /\ wake = [p \in Procs |-> 0]
    /\ run = [p \in Procs |-> NoRun]
    /\ runs = 0
    /\ wrote = [p \in Procs |-> NoWrite]

SpecQuote == InitQuote /\ [][NextSeq]_vars

(***************************************************************************)
(* stock_loop.py: main calls run_analysis, waits INTERVAL and starts over. *)
(* sys.exit(1) in stock_analysis.main raises SystemExit, which is no        *)
(* Exception: neither run_analysis nor the loop catches it.                *)
(***************************************************************************)
MaxLoops == 2

\* the TSE files as they should be, and the OTC files there or missing
LoopFiles ==
    [tse_csv : {TseCsv}, otc_csv : {OtcCsv}, tse_rank : {TseRank},
     otc_rank : {OtcRank, ABSENT}]

InitLoop ==
    /\ InitLoadIdle
    /\ exchange = DataReplies
    /\ prog = "stock_loop"
    /\ clock = 0
    /\ rank = [m \in Markets |-> ABSENT]
    /\ index = ABSENT
    /\ latest = ABSENT
    /\ hist = [t \in Stamps |-> ABSENT]
    /\ appended = <<>>
    /\ pc = [p \in Procs |-> "idle"]
    /\ wake = [p \in Procs |-> 0]
    /\ run = [p \in Procs |-> NoRun]
    /\ runs = 0
    /\ wrote = [p \in Procs |-> NoWrite]
    /\ aMode = "TSE"
    /\ aFiles \in LoopFiles
    /\ aOut = [m \in Markets |-> ABSENT]
    /\ aPc = "idle"
    /\ aRun = NoAnalysis
    /\ loop = [pc |-> "top", run_count |-> 0, success |-> "none"]

\* main: the head of the while loop, and run_analysis up to the call of
\* stock_analysis.main; an import that raises is caught by run_analysis
LoopRun ==
    /\ loop.pc = "top"
    /\ loop.run_count < MaxLoops
    /\ \/ /\ loop' = [pc |-> "analysis", run_count |-> loop.run_count + 1,
                      success |-> "none"]
          /\ aPc' = "idle"
          /\ aRun' = NoAnalysis
       \/ /\ loop' = [pc |-> "wait", run_count |-> loop.run_count + 1,
                      success |-> FALSE]
          /\ UNCHANGED <<aPc, aRun>>
    /\ UNCHANGED <<aMode, aFiles, aOut, exchange, prog>>
    /\ UNCHANGED <<varsLoad, varsData>>

\* run_analysis: stock_analysis.main returns, or leaves through sys.exit(1)
run_analysis ==
    /\ loop.pc = "analysis"
    /\ aPc \in {"exit0", "exit1"}
    /\ loop' = IF aPc = "exit0"
               THEN [loop EXCEPT !.pc = "wait", !.success = TRUE]
               ELSE [loop EXCEPT !.pc = "exited"]
    /\ UNCHANGED <<exchange, prog>>
    /\ UNCHANGED <<varsLoad, varsData, varsAn>>

\* time.sleep(INTERVAL) returns
LoopWake ==
    /\ loop.pc = "wait"
    /\ loop' = [loop EXCEPT !.pc = "top"]
    /\ UNCHANGED <<exchange, prog>>
    /\ UNCHANGED <<varsLoad, varsData, varsAn>>

\* Ctrl+C: KeyboardInterrupt reaches the except of the loop, which breaks
Interrupt ==
    /\ loop.pc \in {"top", "analysis", "wait"}
    /\ loop' = [loop EXCEPT !.pc = "stopped"]
    /\ UNCHANGED <<exchange, prog>>
    /\ UNCHANGED <<varsLoad, varsData, varsAn>>

NextLoop == LoopRun \/ run_analysis \/ LoopWake \/ Interrupt \/ AStep

SpecLoop == InitLoop /\ [][NextLoop]_vars

(***************************************************************************)
(* Properties.                                                             *)
(***************************************************************************)

\* C1: whenever data/data_list.json holds a list, it has at most 100 entries,
\* whatever runs completed, overlapped, failed or were terminated before.
C1_IndexAtMostCap ==
    index.st = "complete" => Len(index.data) <= HistoryCap

\* a run is done, the index is full and older entries have been evicted
C1_Witness ==
    /\ \E p \in Procs : pc[p] = "done"
    /\ index.st = "complete"
    /\ Len(index.data) = HistoryCap
    /\ Len(appended) > HistoryCap

last_n(q, n) == IF Len(q) <= n THEN q ELSE SubSeq(q, Len(q) - n + 1, Len(q))

\* C2: with the runs one after the other, the index is the list of the
\* min(N, 100) entries appended last, in the order they were appended
\* (N counts the entries the index started with and those of the calls
\* completed since).
C2_Fifo ==
    index.st = "complete" => index.data = last_n(appended, HistoryCap)

\* two calls on an index of 99 entries: the second one evicted the oldest
C2_Witness ==
    /\ pc[1] = "done"
    /\ index.st = "complete"
    /\ Len(appended) = HistoryCap + 1
    /\ index.data[1] = appended[2]
    /\ index.data[HistoryCap] = appended[HistoryCap + 1]
    /\ index.data[HistoryCap].timestamp > index.data[HistoryCap - 1].timestamp

\* C3: data/latest.json is never seen partially written.
C3_NoPartialLatest ==
    latest.st # "partial"

SaveWritten == {"read_list", "open_list", "dump_list"}

\* C4: once a run has written both artifacts, what it wrote to
\* data/latest.json and what it wrote to its historical file are the same
\* content.
C4_SameContent ==
    \A p \in Procs :
        pc[p] \in SaveWritten =>
            /\ wrote[p].latest.st = "complete"
            /\ wrote[p].hist = wrote[p].latest

\* a run that fetched a record has written both, next to one that stamped a
\* later second
C4_Witness ==
    \E p, q \in Procs :
        /\ pc[p] = "dump_list"
        /\ Len(wrote[p].hist.data.tse) > 0
        /\ pc[q] = "open_hist"
        /\ run[q].timestamp > run[p].timestamp

\* C5: a historical file that has been written is never written again.
C5_HistoryNeverOverwritten ==
    [][\A t \in Stamps : hist[t].st = "complete" => hist'[t] = hist[t]]_vars

not_short(line) == is_skipped(line_strip(line)) \/ Len(line) >= 4
is_long(line) == ~is_skipped(line_strip(line)) /\ Len(line) >= 4
bad_volume(line) == is_long(line) /\ ~is_int(line_strip(line)[4])
not_bad_volume(line) == ~bad_volume(line)

without_short(file) == File(SelectSeq(file.data, not_short))
without_bad_volume(file) == File(SelectSeq(file.data, not_bad_volume))

Loader(who, file) ==
    CASE who = "analysis" -> load_buy_ranking(file)
      [] who = "fetch" -> fetch_load_buy_ranking(file)
      [] who = "old" -> read_ranking_file(file)

\* what one line of four fields or more says, as each loader keeps it
line_entry(who, line) ==
    LET parts == line_strip(line)
    IN  CASE who = "analysis" ->
               [code |-> strip(parts[2]), name |-> strip(parts[3]),
                volume |-> IntOf(parts[4].text)]
          [] who = "fetch" ->
               [code |-> strip(parts[2]), name |-> strip(parts[3]),
                yesterday_buy |-> IntOf(parts[4].text)]
          [] who = "old" ->
               [code |-> parts[2], name |-> parts[3],
                yesterday_buy |-> IntOf(parts[4].text)]

\* C6: a data line of fewer than 4 fields changes nothing: the call ends as
\* it does on the file without these lines, and when the other lines are
\* well formed it does not raise and returns their entries and no other
\* (the two list loaders one entry per line in file order, the dict loader
\* one entry per code, the last line of a code winning).
C6_ShortLinesIgnored ==
    (loadOut.who # "none" /\ loadIn.st = "complete") =>
        LET who == loadOut.who
            long == SelectSeq(loadIn.data, is_long)
        IN  /\ loadOut = Called(who, Loader(who, without_short(loadIn)))
            /\ (\A i \in 1..Len(long) : ~bad_volume(long[i])) =>
                  /\ loadOut.err = "none"
                  /\ \A i \in 1..Len(loadOut.rows) :
                        \E j \in 1..Len(long) : loadOut.rows[i] = line_entry(who, long[j])
                  /\ who \in {"fetch", "old"} =>
                        loadOut.rows = [i \in 1..Len(long) |-> line_entry(who, long[i])]
                  /\ who = "analysis" =>
                        /\ \A j \in 1..Len(long) :
                              \E i \in 1..Len(loadOut.rows) :
                                 loadOut.rows[i].code = line_entry(who, long[j]).code
                        /\ \A i, k \in 1..Len(loadOut.rows) :
                              loadOut.rows[i].code = loadOut.rows[k].code => i = k
                        /\ \A i \in 1..Len(loadOut.rows) : \A j \in 1..Len(long) :
                              (/\ line_entry(who, long[j]).code = loadOut.rows[i].code
                               /\ \A k \in (j + 1)..Len(long) :
                                     line_entry(who, long[k]).code # loadOut.rows[i].code)
                              => loadOut.rows[i] = line_entry(who, long[j])

\* a loader was given a file with a short line between two good ones
C6_Witness ==
    /\ loadOut.who = "fetch"
    /\ loadIn.st = "complete"
    /\ Len(loadIn.data) = 3
    /\ Len(loadIn.data[2]) = 3
    /\ Len(loadOut.rows) = 2

\* C7: a line of 4 fields or more whose volume is no integer is skipped by
\* itself: the call does not fail and returns what it returns on the file
\* without that line.
C7_BadVolumeLineSkipped ==
    (loadOut.who \in {"analysis", "fetch"} /\ loadIn.st = "complete") =>
        /\ loadOut.err = "none"
        /\ loadOut.rows = Loader(loadOut.who, without_bad_volume(loadIn)).rows

\* C8: loading an absent ranking file returns no entry and does not raise.
C8_AbsentFileLoadsEmpty ==
    (loadOut.who # "none" /\ loadIn.st = "absent") =>
        /\ loadOut.err = "none"
        /\ loadOut.rows = <<>>

codes_of(records) == [i \in 1..Len(records) |-> records[i].code]
succeeded(stocks, infos) ==
    codes_of(fetch_stocks_price(stocks, infos, 0))
persisted(file, stock_data, market) ==
    /\ file.st = "complete"
    /\ file.data.market = market
    /\ file.data.stocks = stock_data

\* C9: a quote that cannot be fetched does not abort the run, the run ends
\* with the market's list persisted, and that list holds the codes whose
\* quote was fetched and no code whose quote was not: no record of
\* data/latest.json is one of a failed request, and a finished analysis has
\* written, for each market it fetched, the list of the fetched codes.
C9_FailedCodesAbsent ==
    /\ \A p \in Procs :
          wrote[p].latest.st = "complete" =>
             /\ \A i \in 1..Len(wrote[p].latest.data.tse) :
                   wrote[p].latest.data.tse[i].success
             /\ \A i \in 1..Len(wrote[p].latest.data.otc) :
                   wrote[p].latest.data.otc[i].success
    /\ aPc = "exit0" =>
          /\ aRun.tse_sorted # <<>> =>
                /\ persisted(aOut["TSE"], aRun.tse_stock_data, "TSE")
                /\ codes_of(aOut["TSE"].data.stocks) =
                      succeeded(aRun.tse_sorted, aRun.tse_info)
          /\ aRun.otc_sorted # <<>> =>
                /\ persisted(aOut["OTC"], aRun.otc_stock_data, "OTC")
                /\ codes_of(aOut["OTC"].data.stocks) =
                      succeeded(aRun.otc_sorted, aRun.otc_info)

present(file) == file.st # "absent"
market_files(files, market) ==
    IF market = "TSE" THEN {files.tse_csv, files.tse_rank}
    ELSE {files.otc_csv, files.otc_rank}
other(market) == IF market = "TSE" THEN "OTC" ELSE "TSE"
loaded_codes(file) ==
    LET rows == fetch_load_buy_ranking(file).rows
    IN  [i \in 1..Len(rows) |-> rows[i].code.text]

\* C10: when an input file of one market is absent and the files of the
\* other market are present, the other market is still fetched and its
\* artifact persisted, and the process does not end before the fetch:
\* data/latest.json carries the codes of the market whose ranking file is
\* there, and stock_analysis.main never exits ahead of its fetch stage.
C10_OtherMarketStillRuns ==
    /\ \A p \in Procs : \A m \in Markets :
          (/\ wrote[p].latest.st = "complete"
           /\ present(rank[m])
           /\ ~present(rank[other(m)]))
          => codes_of(IF m = "TSE" THEN wrote[p].latest.data.tse
                      ELSE wrote[p].latest.data.otc) = loaded_codes(rank[m])
    /\ \A m \in Markets :
          (/\ prog = "stock_analysis"
           /\ selected(aMode, m)
           /\ \A f \in market_files(aFiles, m) : present(f)
           /\ \E f \in market_files(aFiles, other(m)) : ~present(f))
          => ~(aPc = "exit1" /\ ~aRun.fetched)

\* C11: a run ends with a non-zero exit only where the writing of a final
\* output artifact failed: stock_analysis.main reaches exit code 1 only from
\* its save stage, and fetch_stock_data.main fails only at an open or a dump
\* of save_data; a failed fetch, a bad line, a missing input file and a failed
\* save of the news all leave the run to end normally.
C11_NonZeroExitOnlyOnWriteFailure ==
    [][/\ (aPc' = "exit1" /\ aPc # "exit1") => aPc \in {"save_tse", "save_otc"}
       /\ \A p \in Procs :
             (pc'[p] = "failed" /\ pc[p] # "failed") => pc[p] \in Writing]_vars

rank_file(files, market) == IF market = "TSE" THEN files.tse_rank ELSE files.otc_rank
market_list(data, market) == IF market = "TSE" THEN data.tse ELSE data.otc
written_now(file) == file.st = "complete" /\ file.data.update_time = clock

\* the records of a market agree with the loaded ranking on yesterday_buy
keeps_ranking_volume(records, buy_ranking) ==
    \A i \in 1..Len(records) : \A j \in 1..Len(buy_ranking) :
        (buy_ranking[j].code.text = records[i].code /\ buy_ranking[j].volume # 0)
        => records[i].yesterday_buy = buy_ranking[j].volume

\* C12: when the ranking file was loaded, the yesterday_buy of the record of
\* a code equals the non-zero volume the ranking holds for it, whatever the
\* quotes and the news return: in data/latest.json record i carries the
\* volume of loaded line i, and in the analysis the merged list, the fetched
\* list and the written artifact carry the volume of the loaded ranking.
C12_RankingVolumeKept ==
    /\ \A p \in Procs : \A m \in Markets :
          wrote[p].latest.st = "complete" =>
             LET stocks == fetch_load_buy_ranking(rank[m]).rows
                 records == market_list(wrote[p].latest.data, m)
             IN  /\ Len(records) = Len(stocks)
                 /\ \A i \in 1..Len(records) :
                       /\ records[i].code = stocks[i].code.text
                       /\ stocks[i].yesterday_buy # 0 =>
                             records[i].yesterday_buy = stocks[i].yesterday_buy
    /\ \A m \in Markets :
          LET buy_ranking == load_buy_ranking(rank_file(aFiles, m)).rows
          IN  /\ keeps_ranking_volume(IF m = "TSE" THEN aRun.tse_sorted
                                      ELSE aRun.otc_sorted, buy_ranking)
              /\ keeps_ranking_volume(IF m = "TSE" THEN aRun.tse_stock_data
                                      ELSE aRun.otc_stock_data, buy_ranking)
              /\ written_now(aOut[m]) =>
                    keeps_ranking_volume(aOut[m].data.stocks, buy_ranking)

\* a finished analysis wrote the record of a stock that the news mention and
\* the ranking lists; a ranking that lists the code twice holds the later volume
C12_Witness ==
    /\ aPc = "exit0"
    /\ aFiles.tse_rank = TseRankDup
    /\ written_now(aOut["TSE"])
    /\ \E i \in 1..Len(aOut["TSE"].data.stocks) :
          /\ aOut["TSE"].data.stocks[i].code = "2330"
          /\ aOut["TSE"].data.stocks[i].mention_count = 1
          /\ aOut["TSE"].data.stocks[i].yesterday_buy = 7

unique_codes(records) ==
    \A i, j \in 1..Len(records) : records[i].code = records[j].code => i = j

\* C13: in a run no code appears twice in the merged set of a market or in
\* the list persisted for it, whatever the ranking file (one that lists a
\* code on two lines included) and the news name.
C13_CodesUnique ==
    /\ \A p \in Procs : \A m \in Markets :
          wrote[p].latest.st = "complete" =>
             unique_codes(market_list(wrote[p].latest.data, m))
    /\ unique_codes(aRun.tse_sorted) /\ unique_codes(aRun.otc_sorted)
    /\ unique_codes(aRun.tse_stock_data) /\ unique_codes(aRun.otc_stock_data)
    /\ \A m \in Markets :
          aOut[m].st = "complete" => unique_codes(aOut[m].data.stocks)

csv_file(files, market) == IF market = "TSE" THEN files.tse_csv ELSE files.otc_csv

\* the names the input files give a code: the ranking's and the company list's
listed_names(files, market, code) ==
    LET buy_ranking == load_buy_ranking(rank_file(files, market)).rows
        stock_list == load_stock_list(csv_file(files, market), market)
    IN  {buy_ranking[j].name.text : j \in {k \in 1..Len(buy_ranking) :
                                              buy_ranking[k].code.text = code}}
        \cup {stock_list[j].name : j \in {k \in 1..Len(stock_list) :
                                              stock_list[k].code = code}}

\* C14: the name of an output record is the name its watchlist entry gives
\* the code; the name inside the quote is taken only where the entry has
\* none.  Every record of data/latest.json carries the name of its ranking
\* line, and every record of the analysis a name of the input files.
C14_WatchlistNameFirst ==
    /\ \A p \in Procs : \A m \in Markets :
          wrote[p].latest.st = "complete" =>
             LET stocks == fetch_load_buy_ranking(rank[m]).rows
                 records == market_list(wrote[p].latest.data, m)
             IN  \A i \in 1..Len(records) :
                    (i <= Len(stocks) /\ stocks[i].name.text # "")
                    => records[i].name = stocks[i].name.text
    /\ \A m \in Markets :
          written_now(aOut[m]) =>
             \A i \in 1..Len(aOut[m].data.stocks) :
                aOut[m].data.stocks[i].name
                   \in listed_names(aFiles, m, aOut[m].data.stocks[i].code)

\* what an entry of a ladder counts for: its number, or zero when it is none
entry_value(v) == IF v \in LadderInts THEN LadderOf(v) ELSE 0

RECURSIVE entries_sum(_)
entries_sum(vs) == IF vs = <<>> THEN 0 ELSE entry_value(Head(vs)) + entries_sum(Tail(vs))

\* C15: a quote the exchange answered is a successful record whose buyTotal
\* and sellTotal are the sums of the numeric entries of the bid (g) and ask
\* (f) ladders, an entry that is empty or no number counting zero and never
\* failing the quote, and whose diff is buyTotal - sellTotal.
C15_LadderTotals ==
    \A p \in Procs : \A reply \in exchange :
       (exchange = {reply} /\ reply.kind = "ok" /\ wrote[p].latest.st = "complete")
       => \A m \in Markets :
             \A i \in 1..Len(market_list(wrote[p].latest.data, m)) :
                LET record == market_list(wrote[p].latest.data, m)[i]
                IN  /\ record.success
                    /\ record.buyTotal = entries_sum(reply.g)
                    /\ record.sellTotal = entries_sum(reply.f)
                    /\ record.diff = record.buyTotal - record.sellTotal

\* how a request names the market of a ranking file
exchange_name(market) == IF market = "TSE" THEN "tse" ELSE "otc"
suffix_name(market) == IF market = "TSE" THEN ".TW" ELSE ".TWO"

\* C16: the quote request for a code names the market of the ranking file the
\* code was loaded from, whatever the code looks like: a code of the OTC file
\* is asked for as otc (.TWO), a code of the TSE file as tse (.TW).
C16_RequestNamesMarketOfFile ==
    /\ \A p \in Procs : \A m \in Markets :
          wrote[p].latest.st = "complete" =>
             LET stocks == fetch_load_buy_ranking(rank[m]).rows
             IN  \A i \in 1..Len(stocks) :
                    ex_ch(stocks[i].code.text).exchange = exchange_name(m)
    /\ aRun.fetched =>
          \A m \in Markets :
             LET buy_ranking == load_buy_ranking(rank_file(aFiles, m)).rows
                 sorted == IF m = "TSE" THEN aRun.tse_sorted ELSE aRun.otc_sorted
             IN  \A i \in 1..Len(sorted) :
                    /\ yahoo_code(sorted[i].code, sorted[i].market).suffix = suffix_name(m)
                    /\ selected(aMode, m) =>
                          \A j \in 1..Len(buy_ranking) :
                             \E k \in 1..Len(sorted) :
                                sorted[k].code = buy_ranking[j].code.text

\* the place of a code in the list the requests were sent from
position(code, sorted) == CHOOSE k \in 1..Len(sorted) : sorted[k].code = code

in_dispatch_order(records, sorted) ==
    /\ \A i \in 1..Len(records) : \E k \in 1..Len(sorted) : sorted[k].code = records[i].code
    /\ \A i, j \in 1..Len(records) :
          i < j => position(records[i].code, sorted) < position(records[j].code, sorted)

\* C17: within a market the records keep the order in which the requests
\* were sent, which is the order of the input list, whatever requests fail:
\* record i of data/latest.json is the record of loaded line i, and the
\* records of the analysis are a subsequence of its sorted list.
C17_RecordsInDispatchOrder ==
    /\ \A p \in Procs : \A m \in Markets :
          wrote[p].latest.st = "complete" =>
             codes_of(market_list(wrote[p].latest.data, m)) = loaded_codes(rank[m])
    /\ in_dispatch_order(aRun.tse_stock_data, aRun.tse_sorted)
    /\ in_dispatch_order(aRun.otc_stock_data, aRun.otc_sorted)
    /\ \A m \in Markets :
          written_now(aOut[m]) =>
             in_dispatch_order(aOut[m].data.stocks,
                               IF m = "TSE" THEN aRun.tse_sorted ELSE aRun.otc_sorted)

\* both quotes of a market fetched and written, the stock the news name first
C17_Witness ==
    /\ aPc = "exit0"
    /\ codes_of(aRun.tse_sorted) = <<"2317", "2330">>
    /\ written_now(aOut["TSE"])
    /\ codes_of(aOut["TSE"].data.stocks) = <<"2317", "2330">>

count(events, e) == Cardinality({i \in 1..Len(events) : events[i] = e})

\* one call of a retrying function, by the answers it got and what it did
bounded_retry(try) ==
    LET n == count(try.events, "request")
    IN  /\ 1 <= n /\ n <= MAX_RETRY
        /\ count(try.events, "sleep") = n - 1
        /\ try.events[Len(try.events)] = "request"
        /\ \A k \in 1..Len(try.events) - 1 : try.events[k] # try.events[k + 1]
        /\ \A k \in 1..(n - 1) : try.attempts[k].kind # "page"
        /\ try.attempts[n].kind # "page" => n = MAX_RETRY

answered(try) == try.attempts[count(try.events, "request")].kind = "page"

\* C18: get_stock_info and scrape_twstock_news make at most MAX_RETRY
\* attempts whatever fails, stop at the first attempt that succeeds, sleep
\* between two attempts and never after the last one, and return None or the
\* empty list when every attempt failed.
C18_RetryBounded ==
    aRun.fetched =>
       /\ \A i \in 1..Len(aRun.tse_tries) :
             /\ bounded_retry(aRun.tse_tries[i])
             /\ aRun.tse_info[i].ok <=> answered(aRun.tse_tries[i])
       /\ \A i \in 1..Len(aRun.otc_tries) :
             /\ bounded_retry(aRun.otc_tries[i])
             /\ aRun.otc_info[i].ok <=> answered(aRun.otc_tries[i])
       /\ \A i \in 1..Len(aRun.news_tries) :
             /\ bounded_retry(aRun.news_tries[i])
             /\ ~answered(aRun.news_tries[i]) => aRun.news_save = "skipped"

\* a stock whose three attempts all failed, after a scrape that gave up too
C18_Witness ==
    /\ aRun.fetched
    /\ \E i \in 1..Len(aRun.tse_tries) :
          /\ aRun.tse_tries[i].events = <<"request", "sleep", "request", "sleep", "request">>
          /\ ~aRun.tse_info[i].ok
    /\ aRun.news_tries[1].events = <<"request", "sleep", "request", "sleep", "request">>
    /\ ~answered(aRun.news_tries[1])

\* C19: a failed execution of the analysis does not end the loop runner:
\* when stock_analysis.main has failed (a required file missing, an artifact
\* write failed), run_analysis reports the failure and the loop goes on to
\* its wait, from which the next run starts; only the user's interrupt
\* ends the loop.
C19_LoopSurvivesFailedRun ==
    [][(loop.pc = "analysis" /\ aPc = "exit1" /\ loop' # loop)
       => \/ loop'.pc = "wait" /\ loop'.success = FALSE
          \/ loop'.pc = "stopped"]_vars

\* C20: overlapping runs do not coordinate in update_data_list and the last
\* write wins: the list a run computes is the index it read plus its own
\* entry, cut to the 100 newest, and its write makes the index exactly that
\* list, whatever another run wrote since the read; the index holds at most
\* 100 entries.
C20_LastWriteWins ==
    [][\A p \in Procs :
          /\ (pc[p] = "read_list" /\ pc'[p] = "open_list")
             => run'[p].data_list =
                   last_n(Append(IF index.st = "absent" THEN <<>> ELSE index.data,
                                 run_entry(p)), HistoryCap)
          /\ (pc[p] = "dump_list" /\ pc'[p] = "done")
             => /\ index' = File(run[p].data_list)
                /\ Len(index'.data) <= HistoryCap]_vars

\* both runs have finished and the index, which ends with the entry of the
\* run that wrote last, does not hold the entry of the other run
C20_Witness ==
    /\ pc[1] = "done" /\ pc[2] = "done"
    /\ index.st = "complete"
    /\ Len(appended) >= 2
    /\ index.data[Len(index.data)] = appended[Len(appended)]
    /\ \A i \in 1..Len(index.data) : index.data[i] # appended[Len(appended) - 1]
    /\ Len(index.data) = HistoryCap

\* C21: save_data appends to the index only after data/latest.json and the
\* historical file were written.  A step that changes data/data_list.json is
\* the step of a run that has completely written both; the entry a run adds
\* names the historical file that run wrote; and a run that fails adds no
\* entry with its failing step.
C21_IndexAfterArtifacts ==
    [][/\ index' # index =>
             \E p \in Procs :
                /\ pc[p] \in {"open_list", "dump_list"}
                /\ wrote[p].latest.st = "complete"
                /\ wrote[p].hist.st = "complete"
       /\ \A p \in Procs :
             /\ (pc[p] = "dump_list" /\ pc'[p] = "done")
                => /\ wrote[p].latest.st = "complete"
                   /\ wrote[p].hist.st = "complete"
                   /\ appended' = Append(appended, index'.data[Len(index'.data)])
                   /\ index'.data[Len(index'.data)].filename
                         = history_file(wrote[p].hist.data.timestamp)
             /\ (pc'[p] = "failed" /\ pc[p] # "failed")
                => /\ index' = index
                   /\ appended' = appended]_vars

\* one run has added its entry, which names a historical file that is there
\* complete, and the other run has failed
C21_Witness ==
    \E p, q \in Procs :
        /\ pc[p] = "done" /\ pc[q] = "failed"
        /\ index.st = "complete"
        /\ Len(index.data) \in {1, HistoryCap}
        /\ index.data[Len(index.data)] = appended[Len(appended)]
        /\ index.data[Len(index.data)].timestamp >= 0
        /\ hist[index.data[Len(index.data)].filename].st = "complete"

\* the snapshot records the run of stock_analysis.main produced for a market
run_records(market) ==
    IF market = "TSE" THEN aRun.tse_stock_data ELSE aRun.otc_stock_data

\* the artifact of a market is no longer the one the run found
overwritten(market) ==
    aOut[market] \notin {ABSENT, File(OldOutput(market))}

\* C22: when a run of stock_analysis.main has ended, the output artifact of a
\* market was overwritten by it if and only if the run produced at least one
\* snapshot record for that market; a market that PROCESS_MODE does not select,
\* or whose quote fetches all failed, keeps its previous artifact.
C22_OverwrittenIffRecords ==
    aPc \in {"exit0", "exit1"}
       => \A m \in Markets : overwritten(m) <=> run_records(m) # <<>>

====
